---- MODULE Spec2Model ----
(***************************************************************************)
(* A model of the prestige-aware reranking of zotero-arxiv-daily:          *)
(*   - rerank_paper            (recommender.py)                            *)
(*   - AuthorScorer            (author_scorer.py)                          *)
(*   - InstitutionScorer       (institution_scorer.py)                     *)
(* Each component has its own specification over its own variables; the    *)
(* variables of the other components stay at their initial value.          *)
(*                                                                         *)
(* Numbers.  Python floats are modelled by exact integers in a fixed unit: *)
(*   - a final paper score is kept in units of 1/ScoreUnit,                *)
(*   - an author score is kept in units of 1/AuthorUnit,                   *)
(*   - the cache clock and cached_at are kept in units of 10 days,         *)
(*   - the clock of the rate limiter is kept in units of 50 ms.            *)
(* Floating point rounding is not modelled.                                *)
(***************************************************************************)
EXTENDS Integers, Sequences, FiniteSets, TLC

VARIABLES
    \* ---- rerank_paper ----
    candidate,      \* the caller's list object (list[ArxivPaper])
    returned,       \* the list rerank_paper returned
    rpc,            \* "ready" | "returned" | "raised"
    opts,           \* the options of the call
    resolved,       \* ids of the papers whose prestige properties were read
    given           \* the caller's list as it was when the call was made

rerankVars == <<candidate, returned, rpc, opts, resolved, given>>

VARIABLES
    \* ---- AuthorScorer ----
    now,            \* time.time() as get_score reads it, in units of 10 days
    cache,          \* self.cache: author name -> cache entry
    calls,          \* number of calls made on the scorer
    last,           \* the last call: its arguments, what it did, its result
    unknown         \* name -> the time its last lookup ended as not found

authorVars == <<now, cache, calls, last, unknown>>

VARIABLES
    \* ---- InstitutionScorer ----
    static_scores,  \* self.static_scores, in insertion order: <<[name, score]>>
    inst_cache,     \* self.cache: normalized name -> score
    inst_last       \* the last call of get_score: its argument and result

instVars == <<static_scores, inst_cache, inst_last>>

VARIABLES
    \* ---- AuthorScorer: rate limiter and HTTP session ----
    threads,            \* the threads that call search_author
    clock,              \* time.time() as rate_limit reads it, in units of 50 ms
    ticks,              \* number of clock units that have passed one by one
    last_request_time,  \* self.last_request_time
    thread,             \* thread -> where it is in search_author
    wire                \* the HTTP requests sent and the passes of the gate

gateVars == <<threads, clock, ticks, last_request_time, thread, wire>>

vars == <<rerankVars, authorVars, instVars, gateVars>>

\* The sequence f[1..n] as an explicit tuple (each element evaluated once).
Tup(f, n) == SubSeq(f, 1, n)

Min(a, b) == IF a <= b THEN a ELSE b
Max(a, b) == IF a >= b THEN a ELSE b

(***************************************************************************)
(* InstitutionScorer                                                       *)
(* A string is the sequence of its characters.                             *)
(***************************************************************************)

\* Program constant: default_score (line 17).
InstDefault == 50
\* len(inst_lower) > 3 (line 93)
ShortName   == 3

StrMIT                 == <<"M", "I", "T">>
StrMitLower            == <<"m", "i", "t">>
StrMitCsail            == <<"M", "I", "T", " ", "C", "S", "A", "I", "L">>
StrEth                 == <<"E", "T", "H">>
StrEthZurich           == <<"E", "T", "H", " ", "Z", "u", "r", "i", "c", "h">>
StrStanford            == <<"S", "t", "a", "n", "f", "o", "r", "d">>
StrStanfordUniversity  == <<"S", "t", "a", "n", "f", "o", "r", "d", " ", "U", "n", "i", "v", "e", "r", "s", "i", "t", "y">>
StrStanfordUniv        == <<"S", "t", "a", "n", "f", "o", "r", "d", " ", "U", "n", "i", "v", ".">>
StrStanfordLower       == <<"s", "t", "a", "n", "f", "o", "r", "d", " ", "u", "n", "i", "v", "e", "r", "s", "i", "t", "y">>
StrDeptStanford        == <<"D", "e", "p", "t", ".", " ", "o", "f", " ", "C", "S", ",", " ", "S", "t", "a", "n", "f", "o", "r", "d", " ", "U", "n", "i", "v", ".">>
StrStanfordComma       == <<"S", "t", "a", "n", "f", "o", "r", "d", " ", "U", "n", "i", "v", "e", "r", "s", "i", "t", "y", ",">>
StrBlank               == <<" ">>
StrCsMit               == <<"C", "S", ",", " ", "M", "I", "T">>
StrCaltech             == <<"C", "a", "l", "t", "e", "c", "h">>
StrEmpty               == <<>>
StrUniv                == <<"U", "n", "i", "v">>
StrColl                == <<"C", "o", "l", "l">>
StrInst                == <<"I", "n", "s", "t">>
StrTech                == <<"T", "e", "c", "h">>
StrDept                == <<"D", "e", "p", "t">>
StrUniversity          == <<"U", "n", "i", "v", "e", "r", "s", "i", "t", "y">>
StrCollege             == <<"C", "o", "l", "l", "e", "g", "e">>
StrInstitute           == <<"I", "n", "s", "t", "i", "t", "u", "t", "e">>
StrTechnology          == <<"T", "e", "c", "h", "n", "o", "l", "o", "g", "y">>
StrDepartment          == <<"D", "e", "p", "a", "r", "t", "m", "e", "n", "t">>

UpperCase == <<"A", "B", "C", "D", "E", "F", "G", "H", "I", "J", "K", "L", "M",
               "N", "O", "P", "Q", "R", "S", "T", "U", "V", "W", "X", "Y", "Z">>
LowerCase == <<"a", "b", "c", "d", "e", "f", "g", "h", "i", "j", "k", "l", "m",
               "n", "o", "p", "q", "r", "s", "t", "u", "v", "w", "x", "y", "z">>
Digits    == {"0", "1", "2", "3", "4", "5", "6", "7", "8", "9"}
Whitespace == {" "}

\* str.lower()
LowerMap == [i \in 1..Len(UpperCase) |-> LowerCase[i]]
UpperIndex ==
    [ch \in {UpperCase[i] : i \in 1..Len(UpperCase)} |->
        CHOOSE i \in 1..Len(UpperCase) : UpperCase[i] = ch]
LowerChar(ch) == IF ch \in DOMAIN UpperIndex THEN LowerMap[UpperIndex[ch]] ELSE ch
Lower(str) == Tup([i \in 1..Len(str) |-> LowerChar(str[i])], Len(str))

\* \w of the regular expressions
WordChars ==
    {UpperCase[i] : i \in 1..Len(UpperCase)}
        \cup {LowerCase[i] : i \in 1..Len(LowerCase)} \cup Digits \cup {"_"}
IsWordChar(ch) == ch \in WordChars

\* str.strip()
Strip(str) ==
    LET solid == {i \in 1..Len(str) : str[i] \notin Whitespace}
    IN  IF solid = {} THEN <<>>
        ELSE SubSeq(str, CHOOSE i \in solid : \A j \in solid : i <= j,
                         CHOOSE i \in solid : \A j \in solid : i >= j)

\* needle in hay
Contains(hay, needle) ==
    LET h == Tup(hay, Len(hay))
        n == Tup(needle, Len(needle))
    IN  \E i \in 0..(Len(h) - Len(n)) :
            \A k \in 1..Len(n) : h[i + k] = n[k]

\* The pattern \b<abbr>\b matches str at position i (re.IGNORECASE).
MatchesAt(str, i, abbr) ==
    /\ i + Len(abbr) - 1 <= Len(str)
    /\ \A k \in 1..Len(abbr) : LowerChar(str[i + k - 1]) = LowerChar(abbr[k])
    /\ i = 1 \/ ~IsWordChar(str[i - 1])
    /\ i + Len(abbr) > Len(str) \/ ~IsWordChar(str[i + Len(abbr)])

\* re.sub(r'\b<abbr>\b\.?', full, str, flags=re.IGNORECASE), from position i
RECURSIVE Expand(_, _, _, _)
Expand(str, i, abbr, full) ==
    IF i > Len(str) THEN <<>>
    ELSE IF MatchesAt(str, i, abbr)
    THEN LET after == i + Len(abbr)
             next  == IF after <= Len(str) /\ str[after] = "." THEN after + 1
                                                                  ELSE after
         IN  full \o Expand(str, next, abbr, full)
    ELSE <<str[i]>> \o Expand(str, i + 1, abbr, full)

\* lines 54-63: the replacements, in the order of the dict
Replacements ==
    << <<StrUniv, StrUniversity>>, <<StrColl, StrCollege>>,
       <<StrInst, StrInstitute>>, <<StrTech, StrTechnology>>,
       <<StrDept, StrDepartment>> >>

RECURSIVE ExpandAll(_, _)
ExpandAll(str, k) ==
    IF k > Len(Replacements) THEN str
    ELSE ExpandAll(Expand(str, 1, Replacements[k][1], Replacements[k][2]), k + 1)

\* lines 67-70: keep the last comma-separated part, stripped
LastPart(str) ==
    LET commas == {i \in 1..Len(str) : str[i] = ","}
    IN  IF commas = {} THEN str
        ELSE Strip(SubSeq(str, (CHOOSE i \in commas : \A j \in commas : i >= j) + 1,
                          Len(str)))

\* lines 39-72: normalize_institution_name
NormalizeInstitutionName(name) ==
    IF name = <<>> THEN <<>>
    ELSE Strip(LastPart(ExpandAll(Strip(name), 1)))

\* The institution strings get_score is called with.
Queries ==
    { StrEmpty, StrBlank, StrMIT, StrMitLower, StrMitCsail, StrCsMit, StrEth,
      StrEthZurich, StrStanford, StrStanfordUniv, StrStanfordLower,
      StrDeptStanford, StrStanfordComma, StrCaltech }

\* normalize_institution_name on each of these strings, computed once.
NormalizedQueries == [q \in Queries |-> NormalizeInstitutionName(q)]
Normalized(name) ==
    IF name \in Queries THEN NormalizedQueries[name]
    ELSE NormalizeInstitutionName(name)

NoMatch == [found |-> FALSE, name |-> <<>>, score |-> 0]
Match(entry) == [found |-> TRUE, name |-> entry.name, score |-> entry.score]

\* line 93: if len(inst_lower) > 3
LongEnoughInclusive(inst_lower) == Len(inst_lower) >= ShortName
LongEnough(inst_lower) == Len(inst_lower) > ShortName

\* lines 84-86: the first entry equal to the query, ignoring case
ExactMatches(table, query_lower) ==
    {i \in 1..Len(table) : Lower(table[i].name) = query_lower}

\* lines 89-94: the first entry that contains the query or is contained in
\* it, ignoring case, and is longer than 3 characters
PartialMatches(table, query_lower) ==
    {i \in 1..Len(table) :
        LET inst_lower == Lower(table[i].name)
        IN  /\ \/ Contains(query_lower, inst_lower)
               \/ Contains(inst_lower, query_lower)
            /\ LongEnough(inst_lower)}

First(indices) == CHOOSE i \in indices : \A j \in indices : i <= j

\* lines 74-96: fuzzy_match
FuzzyMatch(table, query) ==
    LET query_lower == Lower(query)
        exact   == ExactMatches(table, query_lower)
        partial == PartialMatches(table, query_lower)
    IN  IF exact # {} THEN Match(table[First(exact)])
        ELSE IF partial # {} THEN Match(table[First(partial)])
        ELSE NoMatch

\* normalized in self.static_scores / self.static_scores[normalized]
InTable(table, name) == \E i \in 1..Len(table) : table[i].name = name
TableScore(table, name) ==
    table[CHOOSE i \in 1..Len(table) : table[i].name = name].score

InstPut(c, name, score) ==
    [n \in (DOMAIN c) \cup {name} |-> IF n = name THEN score ELSE c[n]]

\* lines 98-135: get_score(institution) on table and cache c.
\* Result: the cache after the call, the score returned, the normalized
\* name, and the return statement that was reached.
InstGetScoreResult(table, c, institution) ==
    IF institution = <<>>
    THEN [cache |-> c, score |-> InstDefault, normalized |-> <<>>, via |-> "empty"]
    ELSE LET normalized == Normalized(institution) IN
    IF normalized \in DOMAIN c
    THEN [cache |-> c, score |-> c[normalized], normalized |-> normalized,
          via |-> "cache"]
    ELSE IF InTable(table, normalized)
    THEN [cache |-> InstPut(c, normalized, TableScore(table, normalized)),
          score |-> TableScore(table, normalized), normalized |-> normalized,
          via |-> "exact"]
    ELSE LET fuzzy_result == FuzzyMatch(table, normalized) IN
         IF fuzzy_result.found
         THEN [cache |-> InstPut(c, normalized, fuzzy_result.score),
               score |-> fuzzy_result.score, normalized |-> normalized,
               via |-> "fuzzy"]
         ELSE [cache |-> InstPut(c, normalized, InstDefault),
               score |-> InstDefault, normalized |-> normalized,
               via |-> "default"]

TableEntry(name, score) == [name |-> name, score |-> score]

\* The static tables the scorer is constructed from (lines 31-37: the
\* content of institution_scores.json, or nothing if the file is missing).
ScoreTables ==
    { <<>>,
      <<TableEntry(StrMIT, 95)>>,
      <<TableEntry(StrStanfordUniversity, 98), TableEntry(StrMIT, 95)>>,
      <<TableEntry(StrStanford, 60), TableEntry(StrStanfordUniversity, 98),
        TableEntry(StrEth, 90)>>,
      <<TableEntry(StrEthZurich, 92), TableEntry(StrStanfordUniversity, 98),
        TableEntry(StrStanford, 60), TableEntry(StrMitLower, 70)>> }

EmptyInstCache == [n \in {} |-> 0]

\* An InstitutionScorer on which nothing was called.
InstIdle ==
    /\ static_scores = <<>>
    /\ inst_cache = EmptyInstCache
    /\ inst_last = [op |-> "none"]

(***************************************************************************)
(* AuthorScorer                                                            *)
(***************************************************************************)

\* Bounds.
MaxCalls   == 2     \* get_score calls in one behaviour of SpecAuthor
MaxElapsed == 3     \* clock units the clock advances in one behaviour
MaxAuthors == 4     \* longest author list passed to get_max_score
StartNow   == 5     \* the clock when the scorer is constructed

\* Program constants.  The clock unit is 10 days, so that the staleness
\* window of 30 * 24 * 3600 seconds (line 195) is StaleAfter units.
StaleAfter   == 3
DefaultScore == 50  \* default_score (line 20)
ShortList    == 3   \* len(authors) <= 3 (line 236)

\* Author scores are kept in units of 1/AuthorUnit: with h, log10(c) and
\* log10(p) integers, 0.5*h_score + 0.3*citation_score + 0.2*paper_score is
\* a multiple of 1/30.
AuthorUnit == 30
Default    == DefaultScore * AuthorUnit

AuthorNames == {"Ada", "Bo", "Cy"}
EmptyName   == ""

\* A metric of an author record: an integer, absent from the record, or of
\* a type arithmetic fails on (null, a string).
IntMetric(v)  == [t |-> "int", v |-> v]
MissingMetric == [t |-> "missing", v |-> 0]
BadMetric     == [t |-> "bad", v |-> 0]

\* data['data'][0] of a 200 response, and the "data" field of a cache entry.
AuthorRecord(h, c, p) ==
    [shape |-> "dict", hIndex |-> h, citationCount |-> c, paperCount |-> p]
NonDictRecord == [shape |-> "str", hIndex |-> MissingMetric,
                  citationCount |-> MissingMetric, paperCount |-> MissingMetric]
EmptyRecord   == [shape |-> "empty", hIndex |-> MissingMetric,
                  citationCount |-> MissingMetric, paperCount |-> MissingMetric]
None          == [shape |-> "none", hIndex |-> MissingMetric,
                  citationCount |-> MissingMetric, paperCount |-> MissingMetric]

AuthorRecords ==
    { AuthorRecord(IntMetric(60), IntMetric(1000000), IntMetric(10000)),
      AuthorRecord(IntMetric(50), IntMetric(100000), IntMetric(1000)),
      AuthorRecord(MissingMetric, IntMetric(1000), IntMetric(10)),
      AuthorRecord(IntMetric(0), IntMetric(0), IntMetric(0)),
      AuthorRecord(IntMetric(-10), IntMetric(0), MissingMetric),
      AuthorRecord(BadMetric, IntMetric(100), IntMetric(10)),
      AuthorRecord(IntMetric(10), IntMetric(100), BadMetric),
      NonDictRecord,
      EmptyRecord }

\* What the external lookup of search_author does (lines 100-115):
\*   exception    session.get raises: connection error, timeout, retries
\*                exhausted
\*   status_429   the response has status 429
\*   status_other the response has another status than 200 and 429
\*   bad_body     status 200, and response.json() raises or is no object
\*   no_data      status 200, and 'data' is missing or empty
\*   found        status 200, and data['data'][0] is the record
Failure(kind) == [kind |-> kind, record |-> None]
Found(rec)    == [kind |-> "found", record |-> rec]
Outcomes ==
    {Failure(k) : k \in {"exception", "status_429", "status_other",
                         "bad_body", "no_data"}}
    \cup {Found(r) : r \in AuthorRecords}

\* lines 81-115: search_author returns the record or None
SearchAuthor(outcome) ==
    IF outcome.kind = "found" THEN outcome.record ELSE None

\* bool(author_data) at line 201
Truthy(rec) == rec.shape \in {"dict", "str"}

\* math.log10 on the counts drawn here, which are powers of ten
RECURSIVE Log10(_)
Log10(n) == IF n < 10 THEN 0 ELSE 1 + Log10(n \div 10)

MetricValue(m) == IF m.t = "int" THEN m.v ELSE 0

\* lines 134-175: calculate_score, in units of 1/AuthorUnit
\*   h_score        = min(h / 50 * 100, 100)
\*   citation_score = min(log10(c) / 5 * 100, 100) if c > 0 else 0
\*   paper_score    = min(log10(p) / 3 * 100, 100) if p > 0 else 0
\*   final          = 0.5 * h_score + 0.3 * citation_score + 0.2 * paper_score
\* Any exception (a record that is no dict, a metric of a wrong type) gives
\* default_score.
CalculateScore(rec) ==
    IF rec.shape # "dict" THEN Default
    ELSE IF "bad" \in {rec.hIndex.t, rec.citationCount.t, rec.paperCount.t}
    THEN Default
    ELSE LET h == MetricValue(rec.hIndex)
             c == MetricValue(rec.citationCount)
             p == MetricValue(rec.paperCount)
             h_score        == Min(2 * h, 100)
             citation_score == IF c > 0 THEN Min(20 * Log10(c), 100) ELSE 0
             paper_score6   == IF p > 0 THEN Min(200 * Log10(p), 600) ELSE 0
         IN  15 * h_score + 9 * citation_score + paper_score6

\* A value of self.cache.  kind "dict" is an entry as get_score writes it,
\* possibly lacking 'score' or 'cached_at' or with a cached_at that is no
\* number; kind "other" is a JSON value that is no object.
Entry(score, data, cached_at) ==
    [kind |-> "dict", has_score |-> TRUE, score |-> score, data |-> data,
     time |-> "num", cached_at |-> cached_at]
NoScoreEntry(cached_at) ==
    [kind |-> "dict", has_score |-> FALSE, score |-> 0, data |-> None,
     time |-> "num", cached_at |-> cached_at]
NoTimeEntry(score) ==
    [kind |-> "dict", has_score |-> TRUE, score |-> score, data |-> None,
     time |-> "missing", cached_at |-> 0]
BadTimeEntry(score) ==
    [kind |-> "dict", has_score |-> TRUE, score |-> score, data |-> None,
     time |-> "bad", cached_at |-> 0]
OtherEntry ==
    [kind |-> "other", has_score |-> FALSE, score |-> 0, data |-> None,
     time |-> "missing", cached_at |-> 0]

Returns(score) == [kind |-> "return", score |-> score]
Raises         == [kind |-> "raise", score |-> 0]

Put(c, name, entry) ==
    [n \in (DOMAIN c) \cup {name} |-> IF n = name THEN entry ELSE c[n]]

\* line 195: time.time() - cache_time < 30 * 24 * 3600
FreshInclusive(t, cache_time) == t - cache_time <= StaleAfter
Fresh(t, cache_time) == t - cache_time < StaleAfter

\* lines 191-196: the cache check.  "hit" returns the cached score, "miss"
\* goes on to the lookup, "raise" is an exception that get_score does not
\* catch: cached_data.get on a value that is no dict, or the subtraction
\* time.time() - cache_time on a cached_at that is no number.
CacheCheck(c, t, name) ==
    IF name \notin DOMAIN c THEN "miss"
    ELSE IF c[name].kind # "dict" THEN "raise"
    ELSE IF c[name].time = "bad" THEN "raise"
    ELSE IF Fresh(t, IF c[name].time = "num" THEN c[name].cached_at ELSE 0)
         THEN "hit" ELSE "miss"

\* lines 211-217: an unknown author is cached with the default score
ForgetUnknown(c, name, t) == c
CacheUnknown(c, name, t) == Put(c, name, Entry(Default, None, t))

\* lines 177-219: get_score(author_name) on cache c at time t, the external
\* lookup (if one is made) ending as outcome.
\* Result: the cache after the call, what the call returns or that it raises,
\* and whether search_author was called.
GetScoreResult(c, t, name, outcome) ==
    IF name = EmptyName
    THEN [cache |-> c, ret |-> Returns(Default), lookup |-> "none"]
    ELSE LET check == CacheCheck(c, t, name) IN
    IF check = "raise"
    THEN [cache |-> c, ret |-> Raises, lookup |-> "none"]
    ELSE IF check = "hit"
    THEN [cache |-> c,
          ret |-> Returns(IF c[name].has_score THEN c[name].score ELSE Default),
          lookup |-> "none"]
    ELSE LET data == SearchAuthor(outcome) IN
         IF Truthy(data)
         THEN LET score == CalculateScore(data)
              IN  [cache |-> Put(c, name, Entry(score, data, t)),
                   ret |-> Returns(score), lookup |-> "found"]
         ELSE [cache |-> CacheUnknown(c, name, t),
               ret |-> Returns(Default), lookup |-> "not_found"]

\* lines 236-240: authors_to_check
FirstMiddleLast(authors) ==
    IF Len(authors) <= ShortList THEN authors
    ELSE <<authors[1], authors[(Len(authors) + 1) \div 2], authors[Len(authors)]>>
AuthorsToCheck(authors) ==
    IF Len(authors) <= ShortList THEN authors
    ELSE <<authors[1], authors[Len(authors)]>>

\* lines 242-245: the loop over authors_to_check from position i on, on
\* cache c.  The result holds the cache after the loop, the scores appended,
\* the names get_score was called with, the names search_author was called
\* with, and whether get_score raised: an exception ends the loop and
\* leaves get_max_score.
RECURSIVE ScoreLoop(_, _, _, _, _)
ScoreLoop(c, t, names, oc, i) ==
    IF i > Len(names)
    THEN [cache |-> c, scores |-> <<>>, asked |-> <<>>, looked |-> {},
          raised |-> FALSE]
    ELSE LET name == names[i]
             r == GetScoreResult(c, t, name,
                                 IF name \in DOMAIN oc THEN oc[name]
                                                       ELSE Failure("exception"))
             seen == IF r.lookup = "none" THEN {} ELSE {name}
         IN  IF r.ret.kind = "raise"
             THEN [cache |-> r.cache, scores |-> <<>>, asked |-> <<name>>,
                   looked |-> seen, raised |-> TRUE]
             ELSE LET rest == ScoreLoop(r.cache, t, names, oc, i + 1)
                  IN  [cache  |-> rest.cache,
                       scores |-> <<r.ret.score>> \o rest.scores,
                       asked  |-> <<name>> \o rest.asked,
                       looked |-> seen \cup rest.looked,
                       raised |-> rest.raised]

SeqMax(scores) ==
    CHOOSE m \in {scores[i] : i \in 1..Len(scores)} :
        \A i \in 1..Len(scores) : scores[i] <= m

\* lines 221-247: get_max_score(authors); oc[name] is how the external
\* lookup of name ends, if it is made.
GetMaxScoreResult(c, t, authors, oc) ==
    LET start == [cache |-> c, scores |-> <<>>, asked |-> <<>>,
                  looked |-> {}, raised |-> FALSE]
    IN  IF Len(authors) = 0
        THEN [acc |-> start, ret |-> Returns(Default)]
        ELSE LET acc == ScoreLoop(c, t, AuthorsToCheck(authors), oc, 1)
             IN  [acc |-> acc,
                  ret |-> IF acc.raised THEN Raises
                          ELSE IF Len(acc.scores) = 0 THEN Returns(Default)
                          ELSE Returns(SeqMax(acc.scores))]

\* The cache files the scorer is constructed from (load_cache, lines 53-62:
\* whatever JSON object the file holds becomes self.cache).
EmptyCache == [n \in {} |-> OtherEntry]
CacheFiles ==
    { EmptyCache,
      [n \in {"Ada", "Bo"} |->
          IF n = "Ada" THEN Entry(90 * AuthorUnit, None, StartNow - (StaleAfter - 1))
                       ELSE Entry(10 * AuthorUnit, None, StartNow - StaleAfter)],
      [n \in {"Ada", "Bo", "Cy"} |->
          IF n = "Ada" THEN Entry(90 * AuthorUnit, None, StartNow - 1)
          ELSE IF n = "Bo" THEN Entry(40 * AuthorUnit, None, StartNow)
          ELSE Entry(70 * AuthorUnit, None, StartNow - StaleAfter - 1)],
      [n \in {"Ada", "Bo"} |->
          IF n = "Ada" THEN NoScoreEntry(StartNow) ELSE NoTimeEntry(90 * AuthorUnit)],
      [n \in {"Ada", "Bo"} |->
          IF n = "Ada" THEN OtherEntry ELSE BadTimeEntry(90 * AuthorUnit)] }

NoCall == [op |-> "none"]

(***************************************************************************)
(* AuthorScorer: the rate limiter and the retrying HTTP session            *)
(* Time is kept on a grid of 50 ms.                                        *)
(***************************************************************************)

\* Bounds.
MaxLookups == 2     \* search_author calls in one behaviour
MaxFailing == 4     \* transient responses of the service in one behaviour
MaxTicks   == 2     \* clock units that pass one by one in one behaviour
MaxLatency == 2     \* longest time a response takes
GateStart  == 4     \* the clock when the first search_author is called

\* Program constants.
MinRequestInterval == 2   \* min_request_interval = 0.1 s (line 51)
RetryTotal         == 3   \* Retry(total=3) (line 39)
BackoffFactor      == 20  \* Retry(backoff_factor=1): 1 s (line 40)

\* Where a thread is in search_author:
\*   pc       "idle" | "read" | "sleep" | "write" | "send" | "wait" | "backoff"
\*   wake     the time its time.sleep ends
\*   tries    the HTTP requests its current lookup has sent
\*   asked_at the time of its last HTTP request
\*   lookups  the search_author calls it has made
\*   result   what its last search_author did: "none" yet, "answered" (a
\*            response came back to search_author), "gave_up" (retries
\*            exhausted, session.get raised, None returned)
IdleThread ==
    [pc |-> "idle", wake |-> 0, tries |-> 0, asked_at |-> 0, lookups |-> 0,
     result |-> "none"]

\* Nothing sent, nobody through the gate: the time of the last HTTP request
\* and of the last pass of the gate, the smallest distance seen between two
\* consecutive ones, and how many there were; the search_author calls made
\* and the transient responses given.
QuietWire ==
    [requests |-> 0, last_sent |-> 0, closest_sent |-> 0,
     passes |-> 0, last_pass |-> 0, closest_pass |-> 0,
     lookups |-> 0, failing |-> 0]

\* lines 49-51: the scorer as constructed; nothing is calling it.
GateIdle ==
    /\ threads = {}
    /\ clock = GateStart
    /\ ticks = 0
    /\ last_request_time = 0
    /\ thread = [t \in {} |-> IdleThread]
    /\ wire = QuietWire

\* What the service answers to one HTTP request:
\*   ok         status 200
\*   transient  a status of status_forcelist (429, 500, 502, 503, 504)
\*   other      any other status
\* A response arrives at least one clock unit after its request.
Responses == {"ok", "transient", "other"}
Latencies == 1..MaxLatency

RECURSIVE Pow2(_)
Pow2(n) == IF n <= 0 THEN 1 ELSE 2 * Pow2(n - 1)

\* urllib3 Retry.get_backoff_time for backoff_factor=1 after `errors`
\* consecutive failed requests: 0 after the first, then
\* backoff_factor * 2 ** (errors - 1) seconds.
Backoff(errors) ==
    IF errors <= 1 THEN 0 ELSE BackoffFactor * Pow2(errors - 1)

\* urllib3 Retry.increment / is_exhausted for total=3: each failed request
\* takes one from total, and the retries are exhausted when it falls below
\* zero.
Exhausted(tries) == RetryTotal - tries < 0

\* An event at time t joins a history of events.
Noted(count, last_at, closest, t) ==
    [count   |-> count + 1,
     last_at |-> t,
     closest |-> IF count = 0 THEN 0
                 ELSE IF count = 1 THEN t - last_at
                 ELSE Min(closest, t - last_at)]

Sent(w, t) ==
    LET n == Noted(w.requests, w.last_sent, w.closest_sent, t)
    IN  [w EXCEPT !.requests = n.count, !.last_sent = n.last_at,
                  !.closest_sent = n.closest]

Passed(w, t) ==
    LET n == Noted(w.passes, w.last_pass, w.closest_pass, t)
    IN  [w EXCEPT !.passes = n.count, !.last_pass = n.last_at,
                  !.closest_pass = n.closest]

\* Time passes.
ClockTick ==
    /\ ticks < MaxTicks
    /\ clock' = clock + 1
    /\ ticks' = ticks + 1
    /\ UNCHANGED <<threads, last_request_time, thread, wire>>

\* line 89: a thread enters search_author.
CallSearchAuthor(t) ==
    /\ thread[t].pc = "idle"
    /\ wire.lookups < MaxLookups
    /\ thread' = [thread EXCEPT ![t].pc = "read", ![t].tries = 0,
                                ![t].lookups = @ + 1, ![t].result = "none"]
    /\ wire' = [wire EXCEPT !.lookups = @ + 1]
    /\ UNCHANGED <<threads, clock, ticks, last_request_time>>

\* lines 75-77: rate_limit reads the clock and self.last_request_time and
\* decides whether to sleep.
RateLimitRead(t) ==
    /\ thread[t].pc = "read"
    /\ LET time_since_last == clock - last_request_time
       IN  IF time_since_last < MinRequestInterval
           THEN thread' = [thread EXCEPT
                             ![t].pc = "sleep",
                             ![t].wake = clock + (MinRequestInterval - time_since_last)]
           ELSE thread' = [thread EXCEPT ![t].pc = "write"]
    /\ UNCHANGED <<threads, clock, ticks, last_request_time, wire>>

\* line 78: time.sleep(...) returns, no earlier than the time asked for.
RateLimitSleep(t) ==
    /\ thread[t].pc = "sleep"
    /\ clock' = Max(clock, thread[t].wake)
    /\ thread' = [thread EXCEPT ![t].pc = "write"]
    /\ UNCHANGED <<threads, ticks, last_request_time, wire>>

\* line 79: self.last_request_time = time.time(); rate_limit returns.
RateLimitWrite(t) ==
    /\ thread[t].pc = "write"
    /\ last_request_time' = clock
    /\ wire' = Passed(wire, clock)
    /\ thread' = [thread EXCEPT ![t].pc = "send"]
    /\ UNCHANGED <<threads, clock, ticks>>

\* line 98: session.get sends the request.
SendRequest(t) ==
    /\ thread[t].pc = "send"
    /\ wire' = Sent(wire, clock)
    /\ thread' = [thread EXCEPT ![t].pc = "wait", ![t].tries = 1,
                                ![t].asked_at = clock]
    /\ UNCHANGED <<threads, clock, ticks, last_request_time>>

\* lines 98-115 with the Retry of lines 38-44: a response arrives.  A
\* transient status is retried inside session.get until the retries are
\* exhausted; then session.get raises and search_author returns None
\* (lines 113-115).  Any other response comes back to search_author, which
\* returns.
Respond(t, status, latency) ==
    /\ thread[t].pc = "wait"
    /\ status = "transient" => wire.failing < MaxFailing
    /\ clock' = Max(clock, thread[t].asked_at + latency)
    /\ wire' = IF status = "transient" THEN [wire EXCEPT !.failing = @ + 1]
                                       ELSE wire
    /\ IF status = "transient"
       THEN IF Exhausted(thread[t].tries)
            THEN thread' = [thread EXCEPT ![t].pc = "idle",
                                         ![t].result = "gave_up"]
            ELSE thread' = [thread EXCEPT
                              ![t].pc = "backoff",
                              ![t].wake = Max(clock, thread[t].asked_at + latency)
                                          + Backoff(thread[t].tries)]
       ELSE thread' = [thread EXCEPT ![t].pc = "idle", ![t].result = "answered"]
    /\ UNCHANGED <<threads, ticks, last_request_time>>

\* The backoff sleep of the Retry ends and session.get sends the request
\* again.
Resend(t) ==
    /\ thread[t].pc = "backoff"
    /\ clock' = Max(clock, thread[t].wake)
    /\ wire' = Sent(wire, Max(clock, thread[t].wake))
    /\ thread' = [thread EXCEPT ![t].pc = "wait", ![t].tries = @ + 1,
                                ![t].asked_at = Max(clock, thread[t].wake)]
    /\ UNCHANGED <<threads, ticks, last_request_time>>

\* No lookup of this scorer has ended as not found.
NoneUnknown == [n \in {} |-> 0]

\* The names whose lookup ended as not found, after the lookups of the
\* names in looked were made at time t and ended as oc says.
NoteUnknown(u, looked, oc, t) ==
    LET missed == {n \in looked : ~Truthy(SearchAuthor(oc[n]))}
    IN  [n \in ((DOMAIN u) \ looked) \cup missed |->
            IF n \in missed THEN t ELSE u[n]]

\* An AuthorScorer with an empty cache on which get_score was not called.
CacheIdle ==
    /\ now = StartNow
    /\ cache = EmptyCache
    /\ calls = 0
    /\ last = NoCall
    /\ unknown = NoneUnknown

AuthorIdle ==
    /\ CacheIdle
    /\ GateIdle

\* rerank_paper has not been called.
NoOpts == [use_prestige |-> FALSE, max_paper_num |-> 0, weight |-> 0, pseed |-> 0]
RerankIdle ==
    /\ candidate = <<>>
    /\ returned = <<>>
    /\ rpc = "ready"
    /\ opts = NoOpts
    /\ resolved = {}
    /\ given = <<>>

AuthorInit ==
    /\ RerankIdle
    /\ InstIdle
    /\ now = StartNow
    /\ cache \in CacheFiles
    /\ calls = 0
    /\ last = NoCall
    /\ unknown = NoneUnknown
    /\ GateIdle

\* The clock advances.
Tick ==
    /\ now < StartNow + MaxElapsed
    /\ now' = now + 1
    /\ UNCHANGED <<cache, calls, last, unknown>>

\* A call of get_score(name).
GetScore(name, outcome) ==
    /\ calls < MaxCalls
    /\ LET r == GetScoreResult(cache, now, name, outcome)
       IN  /\ cache' = r.cache
           /\ last' = [op |-> "get_score", name |-> name, at |-> now,
                       pre |-> cache, ret |-> r.ret, lookup |-> r.lookup,
                       unknown |-> unknown]
           /\ unknown' = NoteUnknown(unknown,
                                     IF r.lookup = "none" THEN {} ELSE {name},
                                     [n \in {name} |-> outcome], now)
    /\ calls' = calls + 1
    /\ UNCHANGED now

\* The names of a list whose lookup the call can make: those that are not
\* answered from the cache as it is when the call starts.
CanLookUp(c, t, names) ==
    {names[i] : i \in 1..Len(names)} \cap
        {n \in AuthorNames : CacheCheck(c, t, n) = "miss"}

\* A call of get_max_score(authors), the first call on the scorer.
GetMaxScore(authors, oc) ==
    /\ calls = 0
    /\ LET r == GetMaxScoreResult(cache, now, authors, oc)
       IN  /\ cache' = r.acc.cache
           /\ last' = [op |-> "get_max_score", authors |-> authors, at |-> now,
                       pre |-> cache, ret |-> r.ret, scores |-> r.acc.scores,
                       asked |-> r.acc.asked, looked |-> r.acc.looked]
           /\ unknown' = NoteUnknown(unknown, r.acc.looked, oc, now)
    /\ calls' = calls + 1
    /\ UNCHANGED now

\* All author lists of at most n names.
ListsUpTo(n) ==
    UNION {[1..k -> AuthorNames \cup {EmptyName}] : k \in 0..n}

(***************************************************************************)
(* rerank_paper                                                            *)
(***************************************************************************)

\* Bounds of the inputs.
MaxCand   == 52     \* longest candidate list
WeightDen == 2      \* prestige_weight is drawn in steps of 1/WeightDen

\* Program constants.
NeutralScore == 50  \* institution_score / author_score outside the window
MinWindow    == 50  \* max(max_paper_num * 3, 50)
WindowFactor == 3   \* max(max_paper_num * 3, 50)

\* One unit of relevance in the unit final scores are kept in:
\* boosts are multiples of 1/100, their product of 1/10000, the weight of
\* 1/WeightDen.
ScoreUnit == 10000 * WeightDen

RelSeeds      == {0, 1, 3}
PrestigeSeeds == {1, 2}
PaperNums     == {-1, 0, 10, 17}
\* prestige_weight * WeightDen: below 0, 0, inside (0,1), 1, above 1
WeightNums    == -1 .. (WeightDen + 1)
\* prestige scores a paper can report: the documented range 0..100 and one
\* value below it (a score calculated from a negative h-index)
PrestigeVals  == <<0, 50, 100, -160>>

\* relevance_scores[idx] as the encoder yields it for paper idx (line 48).
\* The encoder is external: its values are drawn from -1..5 by a generator.
RelOf(seed, i) == ((i * seed) % 7) - 1

\* paper.institution_prestige_score / paper.author_prestige_score, read at
\* lines 70-71: properties of ArxivPaper (paper.py), which resolve the
\* paper's affiliations / authors through the scorers.
InstitutionPrestige(pseed, id) == PrestigeVals[((id * pseed) % 4) + 1]
AuthorPrestige(pseed, id)      == PrestigeVals[((id + pseed) % 4) + 1]

\* list.sort(key=..., reverse=True) / sorted(..., reverse=True): a stable
\* sort, descending by key; equal keys keep their order.  DescOrder(keys)
\* is the order of the indices: DescOrder(keys)[k] is the index of the
\* element that comes k-th.
AscOrder(keys) ==
    LET n == Len(keys)
        rank == Tup([i \in 1..n |->
                   Cardinality({j \in 1..n :
                       \/ keys[j] < keys[i]
                       \/ keys[j] = keys[i] /\ j < i}) + 1], n)
    IN  Tup([k \in 1..n |-> CHOOSE i \in 1..n : rank[i] = k], n)
DescOrder(keys) ==
    LET n == Len(keys)
        rank == Tup([i \in 1..n |->
                   Cardinality({j \in 1..n :
                       \/ keys[j] > keys[i]
                       \/ keys[j] = keys[i] /\ j < i}) + 1], n)
    IN  Tup([k \in 1..n |-> CHOOSE i \in 1..n : rank[i] = k], n)

Permuted(seq, order) == Tup([k \in 1..Len(seq) |-> seq[order[k]]], Len(seq))

\* line 59: candidate.sort(key=lambda x: x.relevance_score, reverse=True)
SortByRelevance(seq) ==
    Permuted(seq, DescOrder(Tup([i \in 1..Len(seq) |-> seq[i].relevance_score], Len(seq))))

\* line 109: sorted(candidate, key=lambda x: x.score, reverse=True)
SortByScoreAscending(seq) ==
    Permuted(seq, AscOrder(Tup([i \in 1..Len(seq) |-> seq[i].score], Len(seq))))
SortByScore(seq) ==
    Permuted(seq, DescOrder(Tup([i \in 1..Len(seq) |-> seq[i].score], Len(seq))))

\* line 56: prestige_weight = max(0.0, min(1.0, prestige_weight))
NoClamp(wn) == wn
ClampWeight(wn) == Max(0, Min(WeightDen, wn))

\* line 63: process_limit = min(len(candidate), max(max_paper_num * 3, 50))
ProcessLimitOffByOne(n, m) == Min(n, Max(m * WindowFactor, MinWindow) + 1)
ProcessLimit(n, m) == Min(n, Max(m * WindowFactor, MinWindow))

\* lines 78-84, in units of 1/ScoreUnit:
\*   institution_boost = 0.5 + institution_score / 100
\*   author_boost      = 0.5 + author_score / 100
\*   weighted_boost    = 1 + prestige_weight * (combined_boost - 1)
\*   final_score       = relevance_score * max(weighted_boost, 0.0)
WeightedBoost(wn, inst, auth) ==
    ScoreUnit + wn * ((50 + inst) * (50 + auth) - 10000)

FinalScore(rel, wn, inst, auth) ==
    rel * Max(WeightedBoost(wn, inst, auth), 0)

\* lines 68-85: one paper of top_candidates
ScoreTop(p, wn, pseed) ==
    LET inst == InstitutionPrestige(pseed, p.id)
        auth == AuthorPrestige(pseed, p.id)
    IN  [p EXCEPT !.institution_score = inst,
                  !.author_score = auth,
                  !.score = FinalScore(p.relevance_score, wn, inst, auth)]

\* lines 95-98 and 102-106: a paper that gets no boost
ScoreBoosted(p) ==
    [p EXCEPT !.institution_score = NeutralScore,
              !.author_score = NeutralScore,
              !.score = FinalScore(p.relevance_score, WeightDen, 100, 100)]
ScoreNeutral(p) ==
    [p EXCEPT !.institution_score = NeutralScore,
              !.author_score = NeutralScore,
              !.score = p.relevance_score * ScoreUnit]

\* lines 51-52: paper.relevance_score = relevance_scores[idx]
WithRelevance(cands) ==
    Tup([i \in 1..Len(cands) |->
            [id |-> cands[i].id, sim |-> cands[i].sim,
             relevance_score |-> cands[i].sim,
             institution_score |-> NeutralScore, author_score |-> NeutralScore,
             score |-> 0]], Len(cands))

\* lines 55-106: the caller's list after the scoring branch
Scored(cands, use_prestige, m, wn, pseed) ==
    LET rel == WithRelevance(cands)
    IN  IF use_prestige
        THEN LET w      == ClampWeight(wn)
                 sorted == SortByRelevance(rel)
                 limit  == ProcessLimit(Len(sorted), m)
             IN  Tup([i \in 1..Len(sorted) |->
                         IF i <= limit THEN ScoreTop(sorted[i], w, pseed)
                                       ELSE ScoreNeutral(sorted[i])], Len(sorted))
        ELSE Tup([i \in 1..Len(rel) |-> ScoreNeutral(rel[i])], Len(rel))

\* lines 64, 68-71: the papers whose prestige properties are read
Resolved(cands, use_prestige, m) ==
    IF use_prestige
    THEN LET sorted == SortByRelevance(WithRelevance(cands))
             limit  == ProcessLimit(Len(sorted), m)
         IN  {sorted[i].id : i \in 1..Max(limit, 0)}
    ELSE {}

\* The caller's candidate list: n papers, relevance drawn by the generator.
CandidateList(n, seed) == [i \in 1..n |-> [id |-> i, sim |-> RelOf(seed, i)]]

RerankInit ==
    /\ \E n \in 0..MaxCand, seed \in RelSeeds : candidate = CandidateList(n, seed)
    /\ returned = <<>>
    /\ rpc = "ready"
    /\ opts = NoOpts
    /\ resolved = {}
    /\ given = <<>>
    /\ AuthorIdle
    /\ InstIdle

\* rerank_paper(candidate, corpus, use_prestige, max_paper_num, prestige_weight)
\* Line 109 sorts into a new list; line 111 reads candidate[0] and
\* candidate[-1] of it, which raises IndexError on an empty list.
RerankPaper(use_prestige, m, wn, pseed) ==
    /\ rpc = "ready"
    /\ LET scored == Scored(candidate, use_prestige, m, wn, pseed)
           final  == SortByScore(scored)
       IN  /\ candidate' = scored
           /\ resolved' = Resolved(candidate, use_prestige, m)
           /\ IF Len(final) = 0
              THEN /\ rpc' = "raised"
                   /\ returned' = <<>>
              ELSE /\ rpc' = "returned"
                   /\ returned' = final
    /\ given' = candidate
    /\ opts' = [use_prestige |-> use_prestige, max_paper_num |-> m,
                weight |-> wn, pseed |-> pseed]
    /\ UNCHANGED <<authorVars, instVars, gateVars>>

RerankNext ==
    /\ rpc = "ready"
    /\ \E use_prestige \in BOOLEAN, m \in PaperNums, wn \in WeightNums,
          pseed \in PrestigeSeeds :
            RerankPaper(use_prestige, m, wn, pseed)

SpecRerank == RerankInit /\ [][RerankNext]_vars

AuthorNext ==
    \/ Tick /\ UNCHANGED <<rerankVars, instVars, gateVars>>
    \/ \E name \in AuthorNames \cup {EmptyName}, outcome \in Outcomes :
          GetScore(name, outcome) /\ UNCHANGED <<rerankVars, instVars, gateVars>>

SpecAuthor == AuthorInit /\ [][AuthorNext]_vars

MaxScoreNext ==
    /\ calls = 0
    /\ \E authors \in ListsUpTo(MaxAuthors) :
          \E oc \in [CanLookUp(cache, now, AuthorsToCheck(authors)) -> Outcomes] :
              GetMaxScore(authors, oc) /\ UNCHANGED <<rerankVars, instVars, gateVars>>

SpecMaxScore == AuthorInit /\ [][MaxScoreNext]_vars

\* search_author called by n threads on one scorer.
GateInit(n) ==
    /\ RerankIdle
    /\ InstIdle
    /\ CacheIdle
    /\ threads = 1..n
    /\ clock = GateStart
    /\ ticks = 0
    /\ last_request_time = 0
    /\ thread = [t \in 1..n |-> IdleThread]
    /\ wire = QuietWire

GateNext ==
    \/ ClockTick /\ UNCHANGED <<rerankVars, authorVars, instVars>>
    \/ \E t \in threads :
          CallSearchAuthor(t) /\ UNCHANGED <<rerankVars, authorVars, instVars>>
    \/ \E t \in threads :
          RateLimitRead(t) /\ UNCHANGED <<rerankVars, authorVars, instVars>>
    \/ \E t \in threads :
          RateLimitSleep(t) /\ UNCHANGED <<rerankVars, authorVars, instVars>>
    \/ \E t \in threads :
          RateLimitWrite(t) /\ UNCHANGED <<rerankVars, authorVars, instVars>>
    \/ \E t \in threads :
          SendRequest(t) /\ UNCHANGED <<rerankVars, authorVars, instVars>>
    \/ \E t \in threads, status \in Responses, latency \in Latencies :
          Respond(t, status, latency) /\ UNCHANGED <<rerankVars, authorVars, instVars>>
    \/ \E t \in threads :
          Resend(t) /\ UNCHANGED <<rerankVars, authorVars, instVars>>

\* One thread: the lookups are made one after the other.
SequentialInit == GateInit(1)
SpecSequential == SequentialInit /\ [][GateNext]_vars

\* Two threads call search_author on the same scorer.
ConcurrentInit == GateInit(2)
SpecConcurrent == ConcurrentInit /\ [][GateNext]_vars

InstInit ==
    /\ RerankIdle
    /\ AuthorIdle
    /\ static_scores \in ScoreTables
    /\ inst_cache = EmptyInstCache
    /\ inst_last = [op |-> "none"]

\* A call of InstitutionScorer.get_score(institution).
InstGetScore(institution) ==
    /\ LET r == InstGetScoreResult(static_scores, inst_cache, institution)
       IN  /\ inst_cache' = r.cache
           /\ inst_last' = [op |-> "get_score", institution |-> institution,
                            normalized |-> r.normalized, score |-> r.score,
                            via |-> r.via]
    /\ UNCHANGED <<static_scores, rerankVars, authorVars, gateVars>>

InstNext == \E institution \in Queries : InstGetScore(institution)

SpecInst == InstInit /\ [][InstNext]_vars

(***************************************************************************)
(* Claims about rerank_paper (checked under SpecRerank)                    *)
(***************************************************************************)
Called == rpc # "ready"
PaperOf(seq, id) == seq[CHOOSE i \in 1..Len(seq) : seq[i].id = id]
Ids(seq) == {seq[i].id : i \in 1..Len(seq)}

\* C3: with use_prestige=True, exactly min(n, max(3*m, 50)) candidates have
\* their prestige resolved, they are the candidates of highest
\* relevance_score, and every other candidate gets institution_score =
\* author_score = 50 and score = relevance_score without a prestige lookup.
C3_PrestigeWindow ==
    (Called /\ opts.use_prestige) =>
        LET n == Len(given)
            k == Min(n, Max(3 * opts.max_paper_num, 50))
        IN  /\ Cardinality(resolved) = k
            /\ resolved \subseteq Ids(given)
            /\ \A i, j \in 1..n :
                  (given[i].id \in resolved /\ given[j].id \notin resolved)
                      => given[i].sim >= given[j].sim
            /\ \A i \in 1..Len(candidate) :
                  candidate[i].id \notin resolved =>
                      /\ candidate[i].institution_score = 50
                      /\ candidate[i].author_score = 50
                      /\ candidate[i].relevance_score = PaperOf(given, candidate[i].id).sim
                      /\ candidate[i].score = candidate[i].relevance_score * ScoreUnit

\* C3 witness: 52 candidates and max_paper_num = 10: 50 resolved, 2 not;
\* and one of the resolved papers got a real boost.
C3_Witness ==
    /\ rpc = "returned" /\ opts.use_prestige
    /\ Len(given) = 52 /\ opts.max_paper_num = 10
    /\ Cardinality(resolved) = 50
    /\ \E i \in 1..Len(returned) :
          returned[i].id \in resolved /\ returned[i].institution_score = 100

\* C4: the returned list is a permutation of the input candidates and is
\* ordered by score, non-increasing.
C4_SortedPermutation ==
    (Called /\ Len(given) > 0) =>
        /\ rpc = "returned"
        /\ Len(returned) = Len(given)
        /\ Ids(returned) = Ids(given)
        /\ \A i \in 1..Len(returned) :
              returned[i].sim = PaperOf(given, returned[i].id).sim
        /\ \A i \in 1..(Len(returned) - 1) :
              returned[i].score >= returned[i + 1].score

\* C4 witness: a returned list whose order differs from the input's and
\* whose scores are not all equal.
C4_Witness ==
    /\ rpc = "returned" /\ Len(returned) >= 3
    /\ \E i \in 1..Len(returned) : returned[i].id # given[i].id
    /\ returned[1].score > returned[Len(returned)].score

\* C5: with use_prestige=False every candidate gets score = relevance_score
\* and institution_score = author_score = 50, and no prestige is resolved.
C5_NoPrestige ==
    (Called /\ ~opts.use_prestige) =>
        /\ resolved = {}
        /\ Len(candidate) = Len(given)
        /\ \A i \in 1..Len(candidate) :
              /\ candidate[i].relevance_score = given[i].sim
              /\ candidate[i].score = given[i].sim * ScoreUnit
              /\ candidate[i].institution_score = 50
              /\ candidate[i].author_score = 50
        /\ \A i \in 1..Len(returned) :
              /\ returned[i].score = returned[i].relevance_score * ScoreUnit
              /\ returned[i].institution_score = 50
              /\ returned[i].author_score = 50

C5_Witness ==
    /\ rpc = "returned" /\ ~opts.use_prestige
    /\ Len(returned) >= 2
    /\ \E i \in 1..Len(returned) : returned[i].score > 0

\* C6: with use_prestige=True and prestige_weight <= 0, every candidate gets
\* the score that the call with use_prestige=False gives it, whatever
\* prestige scores are resolved.
C6_ZeroWeightIsNoPrestige ==
    (Called /\ opts.use_prestige /\ opts.weight <= 0) =>
        LET plain == Scored(given, FALSE, opts.max_paper_num, opts.weight, opts.pseed)
        IN  /\ Len(candidate) = Len(plain)
            /\ \A i \in 1..Len(candidate) :
                  candidate[i].score = PaperOf(plain, candidate[i].id).score
            /\ \A i \in 1..Len(returned) :
                  returned[i].score = PaperOf(plain, returned[i].id).score

\* C6 witness: a negative weight, and a resolved paper of non-zero relevance
\* with prestige scores away from the neutral 50.
C6_Witness ==
    /\ rpc = "returned" /\ opts.use_prestige /\ opts.weight < 0
    /\ \E i \in 1..Len(returned) :
          /\ returned[i].id \in resolved
          /\ returned[i].relevance_score # 0
          /\ returned[i].institution_score = 100
          /\ returned[i].author_score # 50

\* C7 (as claimed): rerank_paper called with an empty candidate list
\* returns an empty list and does not fail.
C7_EmptyReturnsEmpty ==
    (Called /\ Len(given) = 0) => (rpc = "returned" /\ returned = <<>>)

\* C12 (as claimed): after the call, for either value of use_prestige, the
\* list object the caller passed in holds the same candidates in the same
\* order as before the call; only their score fields changed.
C12_CallerOrderKept ==
    Called =>
        /\ Len(candidate) = Len(given)
        /\ \A i \in 1..Len(given) : candidate[i].id = given[i].id

(***************************************************************************)
(* Claims about AuthorScorer.get_score (checked under SpecAuthor)          *)
(***************************************************************************)
GotScore == last.op = "get_score"

\* The entry the cache held for the name of the last get_score call.
HadEntry == GotScore /\ last.name \in DOMAIN last.pre
PreEntry == last.pre[last.name]

\* C1: if the cache holds an entry for the name whose cached_at is less than
\* 30 days before now, get_score returns that entry's score and makes no
\* external lookup (and leaves the cache as it is); if the entry is 30 days
\* old or older, it makes an external lookup and overwrites the entry with a
\* new cached_at.
C1_CacheWindow ==
    (HadEntry /\ PreEntry.kind = "dict" /\ PreEntry.time = "num") =>
        IF last.at - PreEntry.cached_at < StaleAfter
        THEN /\ last.lookup = "none"
             /\ last.ret.kind = "return"
             /\ PreEntry.has_score => last.ret.score = PreEntry.score
             /\ cache = last.pre
        ELSE /\ last.lookup # "none"
             /\ last.ret.kind = "return"
             /\ cache[last.name].time = "num"
             /\ cache[last.name].cached_at = last.at
             /\ cache[last.name].score = last.ret.score
             /\ \A n \in DOMAIN last.pre : n # last.name => cache[n] = last.pre[n]

\* C1 witness: an entry this scorer wrote from a found record is exactly 30
\* days old, and get_score looks the author up again and rewrites it.
C1_Witness ==
    /\ HadEntry
    /\ PreEntry.kind = "dict" /\ PreEntry.time = "num"
    /\ PreEntry.data # None
    /\ last.at - PreEntry.cached_at = StaleAfter
    /\ last.lookup = "found"
    /\ cache[last.name].cached_at = last.at
    /\ cache[last.name].score # PreEntry.score

\* C2 (as claimed): get_score never raises, whatever the cache file held and
\* however the external lookup ends, and on every failure path it returns
\* the default score.
C2_NeverRaises ==
    GotScore =>
        /\ last.ret.kind = "return"
        /\ last.lookup = "not_found" => last.ret.score = Default
        /\ (last.lookup = "found" /\ cache[last.name].data.shape # "dict")
              => last.ret.score = Default

\* C15: when the lookup of a non-empty name ends as not found, for whatever
\* reason, get_score writes the entry {score: default, data: null,
\* cached_at: now} for the name and returns the default; and every later
\* get_score for a name whose lookup ended as not found less than 30 days
\* before returns the default without an external lookup.
C15_UnknownIsCached ==
    /\ (GotScore /\ last.lookup = "not_found") =>
          /\ last.name # EmptyName
          /\ last.name \in DOMAIN cache
          /\ cache[last.name] = Entry(DefaultScore * AuthorUnit, None, last.at)
          /\ last.ret = Returns(DefaultScore * AuthorUnit)
    /\ ( /\ GotScore
         /\ last.name \in DOMAIN last.unknown
         /\ last.at - last.unknown[last.name] < StaleAfter )
       => /\ last.ret = Returns(DefaultScore * AuthorUnit)
          /\ last.lookup = "none"
          /\ cache = last.pre

\* C15 witness: the lookup of a name ended as not found, the clock advanced
\* (by less than 30 days), and a second get_score for the name was answered
\* with the default without a lookup.
C15_Witness ==
    /\ GotScore
    /\ last.name \in DOMAIN last.unknown
    /\ last.at > last.unknown[last.name]
    /\ last.at - last.unknown[last.name] < StaleAfter
    /\ last.lookup = "none"
    /\ last.ret = Returns(DefaultScore * AuthorUnit)

(***************************************************************************)
(* Claims about AuthorScorer.get_max_score (checked under SpecMaxScore)    *)
(***************************************************************************)
GotMaxScore == last.op = "get_max_score"
NamesOf(seq) == {seq[i] : i \in 1..Len(seq)}

\* C9 (as claimed): whatever the author list and whatever the lookups return,
\* the value v that get_max_score returns satisfies 0 <= v <= 100 (in units
\* of 1/AuthorUnit).  A call that raises is the subject of C2.
C9_MaxScoreInRange ==
    (GotMaxScore /\ last.ret.kind = "return") =>
        /\ 0 <= last.ret.score
        /\ last.ret.score <= 100 * AuthorUnit

\* The names of a list that get_score answers without raising: the cache
\* entry of each, if there is one, is an entry as get_score writes it.
WellFormed(c, names) ==
    \A n \in NamesOf(names) \cap DOMAIN c :
        c[n].kind = "dict" /\ c[n].time # "bad"

InstGotScore == inst_last.op = "get_score"

\* Entry i of the table matches the query: ignoring case, one of the two
\* names contains the other.
EntryMatches(i, query) ==
    \/ Contains(Lower(query), Lower(static_scores[i].name))
    \/ Contains(Lower(static_scores[i].name), Lower(query))

\* C8 (as claimed): with a static table that holds "MIT" with score 95 and
\* no other entry matching the query, get_score("MIT CSAIL") returns 95.
C8_MitCsailScores95 ==
    ( /\ InstGotScore
      /\ inst_last.institution = StrMitCsail
      /\ \E i \in 1..Len(static_scores) :
            /\ static_scores[i] = TableEntry(StrMIT, 95)
            /\ \A j \in 1..Len(static_scores) :
                  j # i => ~EntryMatches(j, StrMitCsail) )
    => inst_last.score = 95

\* The entries of the table that equal the query ignoring case, and the
\* entries longer than 3 characters that contain it or are contained in it.
EqualEntries(query) ==
    {i \in 1..Len(static_scores) : Lower(static_scores[i].name) = Lower(query)}
ContainmentEntries(query) ==
    {i \in 1..Len(static_scores) :
        EntryMatches(i, query) /\ Len(static_scores[i].name) > 3}
ShortEntries == {i \in 1..Len(static_scores) : Len(static_scores[i].name) <= 3}

\* The call resolved its normalized query against the table: the input was
\* not empty and the normalized query was not in the cache.
ResolvedInTable == InstGotScore /\ inst_last.via \notin {"empty", "cache"}

C17_EmptyNormalizedIsDefault ==
    ( /\ InstGotScore
      /\ inst_last.institution # StrEmpty
      /\ inst_last.normalized = StrEmpty )
    => /\ inst_last.score = InstDefault
       /\ StrEmpty \in DOMAIN inst_cache => inst_cache[StrEmpty] = InstDefault

(***************************************************************************)
(* Claims about the rate limiter and the retries of search_author          *)
(***************************************************************************)

\* C11 (as claimed): across any sequence of lookups made one after the other
\* through one scorer, any two consecutive HTTP requests, the requests
\* re-sent by the automatic retry included, are at least 100 ms apart.
C11_RequestsSpaced ==
    wire.requests >= 2 => wire.closest_sent >= MinRequestInterval

\* C13 (as claimed): when several threads call search_author on the same
\* scorer, under every interleaving of the steps of rate_limit no two
\* threads leave the gate less than 100 ms apart.
C13_GateSerializes ==
    wire.passes >= 2 => wire.closest_pass >= MinRequestInterval

\* C14 (as claimed): a lookup whose every response is a transient failure
\* sends at most 3 HTTP requests in total before it gives up.
C14_AtMostThreeRequests ==
    \A t \in threads : thread[t].tries <= 3

====
